---- MODULE Spec2Model ----
(***************************************************************************)
(* SerLCD_cI2C: driver of a serial character LCD over I2C, SPI or a byte   *)
(* stream.  The model follows SerLCD_cI2C.cpp and serLCD_cI2C.h.           *)
(*                                                                         *)
(* Every public operation is one action that runs the whole handler.  The  *)
(* calls it makes on the private primitives beginTransmission, transmit    *)
(* and endTransmission, and its delay() calls, are recorded in order in    *)
(* log; ret is its return value.  The status the I2C library gives to each *)
(* primitive call is an input of the operation: the set of the primitive   *)
(* calls (1 = the first call of the operation) that report a status other  *)
(* than I2C_STATUS_OK.                                                     *)
(***************************************************************************)
EXTENDS Integers, Sequences, FiniteSets, TLC

VARIABLES
    i2cPort,          \* _i2cPort != NULL
    serialPort,       \* _serialPort != NULL
    spiPort,          \* _spiPort != NULL
    spiTransaction,   \* _spiTransaction
    i2cAddr,          \* _i2cAddr
    displayControl,   \* _displayControl
    displayMode,      \* _displayMode
    pc,               \* "idle": the host may call; "returned": a call has returned;
                      \* "crashed": a call ran off the end of its function
    op,               \* the call that returned last: [name, args]
    pre,              \* the shadow state that call started from
    log,              \* the primitive calls and delays of that call, in order
    ret,              \* its return value: "true", "false", "void", "size", or
                      \* "indeterminate" (a value read with no return executed)
    nret,             \* the size_t it returned, when ret = "size"
    loop,             \* the loop variable of an operation that runs step by step
    frameOpen,        \* the transport: beginTransmission has succeeded and
                      \* endTransmission has not been called since
    build             \* what the compiler made of the missing return statements

vars == <<i2cPort, serialPort, spiPort, spiTransaction, i2cAddr, displayControl,
          displayMode, pc, op, pre, log, ret, nret, loop, frameOpen, build>>

shadow == <<i2cPort, serialPort, spiPort, spiTransaction, i2cAddr, displayControl,
            displayMode>>

----------------------------------------------------------------------------
(* Constants of serLCD_cI2C.h *)

DISPLAY_ADDRESS1 == 114
MAX_ROWS == 4
MAX_COLUMNS == 20
SPECIAL_COMMAND == 254
SETTING_COMMAND == 124
CLEAR_COMMAND == 45
CONTRAST_COMMAND == 24
ADDRESS_COMMAND == 25
SET_RGB_COMMAND == 43
LCD_RETURNHOME == 2
LCD_ENTRYMODESET == 4
LCD_DISPLAYCONTROL == 8
LCD_CURSORSHIFT == 16
LCD_SETDDRAMADDR == 128
LCD_ENTRYRIGHT == 0
LCD_ENTRYLEFT == 2
LCD_ENTRYSHIFTINCREMENT == 1
LCD_ENTRYSHIFTDECREMENT == 0
LCD_DISPLAYON == 4
LCD_DISPLAYOFF == 0
LCD_CURSORON == 2
LCD_CURSOROFF == 0
LCD_BLINKON == 1
LCD_BLINKOFF == 0
LCD_DISPLAYMOVE == 8
LCD_CURSORMOVE == 0
LCD_MOVERIGHT == 4
LCD_MOVELEFT == 0

----------------------------------------------------------------------------
(* Bounds of the model *)

\* a failure can be injected at any of the first MaxCalls primitive calls of
\* an operation (createChar and setBacklight make 12)
MaxCalls == 12
\* the repeated commands are called with the counts 0..MaxCount and BigCount
MaxCount == 3
BigCount == 32
\* buffers of 0..MaxSize bytes are written
MaxSize == 3

Byte == 0..255

----------------------------------------------------------------------------
(* Byte arithmetic of C *)

RECURSIVE BitAnd(_, _)
BitAnd(a, b) ==
    IF a = 0 \/ b = 0 THEN 0
    ELSE (a % 2) * (b % 2) + 2 * BitAnd(a \div 2, b \div 2)

RECURSIVE BitOr(_, _)
BitOr(a, b) ==
    IF a = 0 THEN b
    ELSE IF b = 0 THEN a
    ELSE (IF a % 2 = 1 \/ b % 2 = 1 THEN 1 ELSE 0) + 2 * BitOr(a \div 2, b \div 2)

\* the conversion of an int to byte
ToByte(v) == v % 256

\* m &= ~bit on a byte m
ClearBit(m, bit) == BitAnd(m, 255 - bit)

\* m |= bit on a byte m
SetBit(m, bit) == ToByte(BitOr(m, bit))

----------------------------------------------------------------------------
(* The transport primitives.  p is the transport binding [i2c, serial, spi, *)
(* tx, addr, build]; f is the set of the primitive calls of the operation  *)
(* that fail (1 = its first call); x is the running record of the          *)
(* operation: its log, the number n of primitive calls made, and ok, the   *)
(* value the last primitive call returned.                                 *)

\* An entry of the log: k is "open", "send" or "close" for a call of
\* beginTransmission, transmit or endTransmission (v the I2C address or the
\* byte, ok the value the call returned), "delay" for a delay(v) of an
\* operation, and in the SPI branch "wait" for the delay(v) inside
\* beginTransmission and endTransmission, "beginTransaction" and
\* "endTransaction" for the bus.
Ev(k, v, ok) == [k |-> k, v |-> v, ok |-> ok]

Start == [log |-> <<>>, n |-> 0, ok |-> TRUE]

\* delay(ms)
Delay(x, ms) == [x EXCEPT !.log = Append(@, Ev("delay", ms, TRUE))]

\* What the compiler made of the functions that flow off their end without a
\* return statement (beginTransmission and endTransmission when neither
\* _i2cPort nor _spiPort is set, transmit when no port is set, and
\* write(uint8_t) always).  "plain": the function returns and the caller
\* reads an indeterminate value.  "assumed": the compiler took the end for
\* unreachable, so the last branch (the SPI one) runs whatever _spiPort is,
\* and write(uint8_t) has no return instruction.
Builds == {"plain", "assumed"}

\* The status of the k-th primitive call: on I2C the status of the I2C
\* library, each call having its own; in a "plain" build the indeterminate
\* value read from a function that flowed off its end.
Status(k, f) == k \notin f

\* the else-if (_spiPort) branch of beginTransmission
spiBeginTransmission(p, x) ==
    [log |-> x.log
              \o (IF p.tx THEN <<Ev("beginTransaction", 0, TRUE)>> ELSE <<>>)
              \o <<Ev("open", 0, TRUE), Ev("wait", 10, TRUE)>>,
     n |-> x.n + 1, ok |-> TRUE]

beginTransmission(p, f, x) ==
    LET k == x.n + 1 IN
    IF p.i2c THEN
        [log |-> Append(x.log, Ev("open", p.addr, Status(k, f))),
         n |-> k, ok |-> Status(k, f)]
    ELSE IF p.spi \/ p.build = "assumed" THEN spiBeginTransmission(p, x)
    ELSE
        [log |-> Append(x.log, Ev("open", 0, Status(k, f))),
         n |-> k, ok |-> Status(k, f)]

transmit(p, f, x, data) ==
    LET k == x.n + 1 IN
    IF p.i2c THEN
        [log |-> Append(x.log, Ev("send", data, Status(k, f))),
         n |-> k, ok |-> Status(k, f)]
    ELSE IF p.serial \/ p.spi \/ p.build = "assumed" THEN
        [log |-> Append(x.log, Ev("send", data, TRUE)), n |-> k, ok |-> TRUE]
    ELSE
        [log |-> Append(x.log, Ev("send", data, Status(k, f))),
         n |-> k, ok |-> Status(k, f)]

\* the else-if (_spiPort) branch of endTransmission
spiEndTransmission(p, x) ==
    [log |-> x.log
              \o <<Ev("close", 0, TRUE)>>
              \o (IF p.tx THEN <<Ev("endTransaction", 0, TRUE)>> ELSE <<>>)
              \o <<Ev("wait", 10, TRUE)>>,
     n |-> x.n + 1, ok |-> TRUE]

endTransmission(p, f, x) ==
    LET k == x.n + 1 IN
    IF p.i2c THEN
        [log |-> Append(x.log, Ev("close", 0, Status(k, f))),
         n |-> k, ok |-> Status(k, f)]
    ELSE IF p.spi \/ p.build = "assumed" THEN spiEndTransmission(p, x)
    ELSE
        [log |-> Append(x.log, Ev("close", 0, Status(k, f))),
         n |-> k, ok |-> Status(k, f)]

\* transmit(b1) && transmit(b2) && ...: the bytes in order, up to the first
\* transmit that returns false
RECURSIVE transmitAll(_, _, _, _)
transmitAll(p, f, x, bytes) ==
    IF bytes = <<>> THEN x
    ELSE LET x1 == transmit(p, f, x, Head(bytes)) IN
         IF x1.ok THEN transmitAll(p, f, x1, Tail(bytes)) ELSE x1

\* the same with endTransmission() called before return false when a
\* transmit has failed
FramedClosingOnFailure(p, f, bytes, ms) ==
    LET x1 == beginTransmission(p, f, Start)
        x2 == IF x1.ok THEN transmitAll(p, f, x1, bytes) ELSE x1
        x3 == IF x1.ok THEN endTransmission(p, f, x2) ELSE x2
    IN  IF x2.ok /\ x3.ok THEN [log |-> Delay(x3, ms).log, ret |-> TRUE]
        ELSE [log |-> x3.log, ret |-> FALSE]

\* if (beginTransmission() && transmit(..) && ... && endTransmission())
\*   { delay(ms); return true; } else { return false; }
Framed(p, f, bytes, ms) ==
    LET x1 == beginTransmission(p, f, Start)
        x2 == IF x1.ok THEN transmitAll(p, f, x1, bytes) ELSE x1
        x3 == IF x2.ok THEN endTransmission(p, f, x2) ELSE x2
    IN  IF x3.ok THEN [log |-> Delay(x3, ms).log, ret |-> TRUE]
        ELSE [log |-> x3.log, ret |-> FALSE]

----------------------------------------------------------------------------
(* The command framer.  Each operator gives the log and the return value   *)
(* of one call, and the new value of whatever shadow field it writes.      *)

\* init sending the entry mode before the display control
initEntryModeFirst(p, f, dc, dm) ==
    Framed(p, f, <<SPECIAL_COMMAND, BitOr(LCD_ENTRYMODESET, dm),
                   SPECIAL_COMMAND, BitOr(LCD_DISPLAYCONTROL, dc),
                   SETTING_COMMAND, CLEAR_COMMAND>>, 50)

init(p, f, dc, dm) ==
    Framed(p, f, <<SPECIAL_COMMAND, BitOr(LCD_DISPLAYCONTROL, dc),
                   SPECIAL_COMMAND, BitOr(LCD_ENTRYMODESET, dm),
                   SETTING_COMMAND, CLEAR_COMMAND>>, 50)

\* command with delay(10) outside the test of endTransmission
commandSettlesAlways(p, f, c) ==
    LET x1 == beginTransmission(p, f, Start)
        x2 == IF x1.ok THEN transmitAll(p, f, x1, <<SETTING_COMMAND, c>>) ELSE x1
        x3 == IF x2.ok THEN endTransmission(p, f, x2) ELSE x2
    IN  [log |-> IF x2.ok THEN Delay(x3, 10).log ELSE x3.log, ret |-> x3.ok]

command(p, f, c) == Framed(p, f, <<SETTING_COMMAND, c>>, 10)

specialCommand(p, f, c) == Framed(p, f, <<SPECIAL_COMMAND, c>>, 50)

\* repeatPairs with the loop test i <= count
RECURSIVE repeatPairsInclusive(_, _, _, _, _, _)
repeatPairsInclusive(p, f, x, c, i, count) ==
    IF i > count THEN x
    ELSE LET x1 == transmitAll(p, f, x, <<SPECIAL_COMMAND, c>>) IN
         IF x1.ok THEN repeatPairsInclusive(p, f, x1, c, i + 1, count) ELSE x1

\* for (int i = 0; i < count; i++)
\*   if (!transmit(SPECIAL_COMMAND) || !transmit(command)) return false;
RECURSIVE repeatPairs(_, _, _, _, _, _)
repeatPairs(p, f, x, c, i, count) ==
    IF i >= count THEN x
    ELSE LET x1 == transmitAll(p, f, x, <<SPECIAL_COMMAND, c>>) IN
         IF x1.ok THEN repeatPairs(p, f, x1, c, i + 1, count) ELSE x1

specialCommandCount(p, f, c, count) ==
    LET x1 == beginTransmission(p, f, Start) IN
    IF x1.ok THEN
        LET x2 == repeatPairs(p, f, x1, c, 0, count) IN
        IF ~x2.ok THEN [log |-> x2.log, ret |-> FALSE]
        ELSE LET x3 == endTransmission(p, f, x2) IN
             IF x3.ok THEN [log |-> Delay(x3, 50).log, ret |-> TRUE]
             ELSE [log |-> x3.log, ret |-> FALSE]
    ELSE [log |-> x1.log, ret |-> FALSE]

\* clear without its own delay(10)
clearNoExtraDelay(p, f) == command(p, f, CLEAR_COMMAND)

clear(p, f) ==
    LET r == command(p, f, CLEAR_COMMAND) IN
    IF r.ret THEN [log |-> Append(r.log, Ev("delay", 10, TRUE)), ret |-> TRUE]
    ELSE [log |-> r.log, ret |-> FALSE]

home(p, f) == specialCommand(p, f, LCD_RETURNHOME)

row_offsets == <<0, 64, 20, 84>>

max(a, b) == IF a > b THEN a ELSE b

min(a, b) == IF a < b THEN a ELSE b

\* setCursorCommand with the column clamped to MAX_COLUMNS - 1 as the row is
setCursorCommandClampCol(col, row) ==
    LET row1 == ToByte(max(0, row))
        row2 == ToByte(min(row1, MAX_ROWS - 1))
        col1 == ToByte(min(col, MAX_COLUMNS - 1))
    IN  ToByte(BitOr(LCD_SETDDRAMADDR, col1 + row_offsets[row2 + 1]))

\* the command byte setCursor passes to specialCommand(byte)
setCursorCommand(col, row) ==
    LET row1 == ToByte(max(0, row))
        row2 == ToByte(min(row1, MAX_ROWS - 1))
    IN  ToByte(BitOr(LCD_SETDDRAMADDR, col + row_offsets[row2 + 1]))

setCursor(p, f, col, row) == specialCommand(p, f, setCursorCommand(col, row))

\* charmapLoop without the test of transmit's result
RECURSIVE charmapLoopUnchecked(_, _, _, _, _)
charmapLoopUnchecked(p, f, x, charmap, i) ==
    IF i >= 8 THEN x
    ELSE charmapLoopUnchecked(p, f, transmit(p, f, x, charmap[i + 1]), charmap, i + 1)

\* for (int i = 0; i < 8; i++) if (!transmit(charmap[i])) return false;
RECURSIVE charmapLoop(_, _, _, _, _)
charmapLoop(p, f, x, charmap, i) ==
    IF i >= 8 THEN x
    ELSE LET x1 == transmit(p, f, x, charmap[i + 1]) IN
         IF x1.ok THEN charmapLoop(p, f, x1, charmap, i + 1) ELSE x1

\* createChar without location &= 0x7
createCharUnmasked(p, f, location, charmap) ==
    LET x1 == beginTransmission(p, f, Start) IN
    IF x1.ok THEN
        LET x2 == transmitAll(p, f, x1, <<SETTING_COMMAND, ToByte(27 + location)>>) IN
        IF x2.ok THEN
            LET x3 == charmapLoop(p, f, x2, charmap, 0) IN
            IF ~x3.ok THEN [log |-> x3.log, ret |-> FALSE]
            ELSE LET x4 == endTransmission(p, f, x3) IN
                 IF x4.ok THEN [log |-> Delay(x4, 50).log, ret |-> TRUE]
                 ELSE [log |-> x4.log, ret |-> FALSE]
        ELSE [log |-> x2.log, ret |-> FALSE]
    ELSE [log |-> x1.log, ret |-> FALSE]

createChar(p, f, location, charmap) ==
    LET loc == BitAnd(location, 7)
        x1 == beginTransmission(p, f, Start)
    IN  IF x1.ok THEN
            LET x2 == transmitAll(p, f, x1, <<SETTING_COMMAND, 27 + loc>>) IN
            IF x2.ok THEN
                LET x3 == charmapLoop(p, f, x2, charmap, 0) IN
                IF ~x3.ok THEN [log |-> x3.log, ret |-> FALSE]
                ELSE LET x4 == endTransmission(p, f, x3) IN
                     IF x4.ok THEN [log |-> Delay(x4, 50).log, ret |-> TRUE]
                     ELSE [log |-> x4.log, ret |-> FALSE]
            ELSE [log |-> x2.log, ret |-> FALSE]
        ELSE [log |-> x1.log, ret |-> FALSE]

writeChar(p, f, location) == command(p, f, 35 + BitAnd(location, 7))

\* write(uint8_t): no status is looked at, and no value is returned
writeByte(p, f, b) ==
    LET x1 == beginTransmission(p, f, Start)
        x2 == transmit(p, f, x1, b)
        x3 == endTransmission(p, f, x2)
    IN  [log |-> Delay(x3, 10).log]

\* while (size--) { transmit(*buffer++); n++; }
RECURSIVE writeLoop(_, _, _, _, _)
writeLoop(p, f, x, buffer, n) ==
    IF n >= Len(buffer) THEN [x |-> x, n |-> n]
    ELSE writeLoop(p, f, transmit(p, f, x, buffer[n + 1]), buffer, n + 1)

\* write(buffer, size) as size calls of write(uint8_t): a frame for each byte
RECURSIVE writeEach(_, _, _, _, _)
writeEach(p, f, x, buffer, n) ==
    IF n >= Len(buffer) THEN x
    ELSE LET x1 == beginTransmission(p, f, x)
             x2 == transmit(p, f, x1, buffer[n + 1])
             x3 == endTransmission(p, f, x2)
         IN  writeEach(p, f, Delay(x3, 10), buffer, n + 1)

writeBufferFramePerByte(p, f, buffer) ==
    [log |-> writeEach(p, f, Start, buffer, 0).log, n |-> Len(buffer)]

\* write(const uint8_t *buffer, size_t size); buffer holds the size bytes
writeBuffer(p, f, buffer) ==
    LET x1 == beginTransmission(p, f, Start)
        w  == writeLoop(p, f, x1, buffer, 0)
        x3 == endTransmission(p, f, w.x)
    IN  [log |-> Delay(x3, 10).log, n |-> w.n]

\* write(const char *str); str is <<>> for NULL, and <<chars>> otherwise
writeStr(p, f, str) ==
    IF str = <<>> THEN [log |-> <<>>, n |-> 0]
    ELSE writeBuffer(p, f, str[1])

----------------------------------------------------------------------------
(* Flag toggles: the shadow mask is written first, then sent whole. *)

\* noDisplay putting the old mask back when the command fails
noDisplayRolledBack(p, f, dc) ==
    LET m == ClearBit(dc, LCD_DISPLAYON)
        r == specialCommand(p, f, BitOr(LCD_DISPLAYCONTROL, m))
    IN  [mask |-> IF r.ret THEN m ELSE dc, log |-> r.log, ret |-> r.ret]

noDisplay(p, f, dc) ==
    LET m == ClearBit(dc, LCD_DISPLAYON) IN
    [mask |-> m] @@ specialCommand(p, f, BitOr(LCD_DISPLAYCONTROL, m))

display(p, f, dc) ==
    LET m == SetBit(dc, LCD_DISPLAYON) IN
    [mask |-> m] @@ specialCommand(p, f, BitOr(LCD_DISPLAYCONTROL, m))

\* noCursor with the complement forgotten: _displayControl &= LCD_CURSORON
noCursorNoComplement(p, f, dc) ==
    LET m == BitAnd(dc, LCD_CURSORON) IN
    [mask |-> m] @@ specialCommand(p, f, BitOr(LCD_DISPLAYCONTROL, m))

noCursor(p, f, dc) ==
    LET m == ClearBit(dc, LCD_CURSORON) IN
    [mask |-> m] @@ specialCommand(p, f, BitOr(LCD_DISPLAYCONTROL, m))

\* cursor sending the changed bit alone
cursorBitOnly(p, f, dc) ==
    LET m == SetBit(dc, LCD_CURSORON) IN
    [mask |-> m] @@ specialCommand(p, f, BitOr(LCD_DISPLAYCONTROL, LCD_CURSORON))

cursor(p, f, dc) ==
    LET m == SetBit(dc, LCD_CURSORON) IN
    [mask |-> m] @@ specialCommand(p, f, BitOr(LCD_DISPLAYCONTROL, m))

noBlink(p, f, dc) ==
    LET m == ClearBit(dc, LCD_BLINKON) IN
    [mask |-> m] @@ specialCommand(p, f, BitOr(LCD_DISPLAYCONTROL, m))

blink(p, f, dc) ==
    LET m == SetBit(dc, LCD_BLINKON) IN
    [mask |-> m] @@ specialCommand(p, f, BitOr(LCD_DISPLAYCONTROL, m))

leftToRight(p, f, dm) ==
    LET m == SetBit(dm, LCD_ENTRYLEFT) IN
    [mask |-> m] @@ specialCommand(p, f, BitOr(LCD_ENTRYMODESET, m))

rightToLeft(p, f, dm) ==
    LET m == ClearBit(dm, LCD_ENTRYLEFT) IN
    [mask |-> m] @@ specialCommand(p, f, BitOr(LCD_ENTRYMODESET, m))

autoscroll(p, f, dm) ==
    LET m == SetBit(dm, LCD_ENTRYSHIFTINCREMENT) IN
    [mask |-> m] @@ specialCommand(p, f, BitOr(LCD_ENTRYMODESET, m))

noAutoscroll(p, f, dm) ==
    LET m == ClearBit(dm, LCD_ENTRYSHIFTINCREMENT) IN
    [mask |-> m] @@ specialCommand(p, f, BitOr(LCD_ENTRYMODESET, m))

----------------------------------------------------------------------------
(* Scrolling and cursor movement *)

scrollLeftCommand == BitOr(BitOr(LCD_CURSORSHIFT, LCD_DISPLAYMOVE), LCD_MOVELEFT)

scrollRightCommand == BitOr(BitOr(LCD_CURSORSHIFT, LCD_DISPLAYMOVE), LCD_MOVERIGHT)

moveLeftCommand == BitOr(BitOr(LCD_CURSORSHIFT, LCD_CURSORMOVE), LCD_MOVELEFT)

moveRightCommand == BitOr(BitOr(LCD_CURSORSHIFT, LCD_CURSORMOVE), LCD_MOVERIGHT)

scrollDisplayLeft(p, f) == specialCommand(p, f, scrollLeftCommand)

scrollDisplayLeftCount(p, f, count) == specialCommandCount(p, f, scrollLeftCommand, count)

scrollDisplayRight(p, f) == specialCommand(p, f, scrollRightCommand)

scrollDisplayRightCount(p, f, count) == specialCommandCount(p, f, scrollRightCommand, count)

moveCursorLeft(p, f) == specialCommand(p, f, moveLeftCommand)

moveCursorLeftCount(p, f, count) == specialCommandCount(p, f, moveLeftCommand, count)

moveCursorRight(p, f) == specialCommand(p, f, moveRightCommand)

moveCursorRightCount(p, f, count) == specialCommandCount(p, f, moveRightCommand, count)

----------------------------------------------------------------------------
(* Backlight, contrast, address *)

\* map(x, in_min, in_max, out_min, out_max) of the Arduino core, on longs
\* a / b of C: the quotient rounded towards zero
Quotient(a, b) ==
    LET q == (IF a < 0 THEN -a ELSE a) \div (IF b < 0 THEN -b ELSE b) IN
    IF (a < 0) = (b < 0) THEN q ELSE -q

\* map() of Arduino, in long arithmetic
map(x, in_min, in_max, out_min, out_max) ==
    Quotient((x - in_min) * (out_max - out_min), in_max - in_min) + out_min

redValue(r) == ToByte(128 + map(r, 0, 255, 0, 29))

\* greenValue starting at 157, the top of the red range
greenValueFrom157(g) == ToByte(157 + map(g, 0, 255, 0, 29))

greenValue(g) == ToByte(158 + map(g, 0, 255, 0, 29))

blueValue(b) == ToByte(188 + map(b, 0, 255, 0, 29))

\* setBacklight(r, g, b) putting the mask back before it returns false
setBacklightRestoring(p, f, dc, r, g, b) ==
    LET x1 == beginTransmission(p, f, Start) IN
    IF x1.ok THEN
        LET off == ClearBit(dc, LCD_DISPLAYON)
            x2  == transmitAll(p, f, x1,
                      <<SPECIAL_COMMAND, BitOr(LCD_DISPLAYCONTROL, off),
                        SETTING_COMMAND, redValue(r),
                        SETTING_COMMAND, greenValue(g),
                        SETTING_COMMAND, blueValue(b)>>)
        IN  IF x2.ok THEN
                LET on == SetBit(off, LCD_DISPLAYON)
                    x3 == transmitAll(p, f, x2,
                             <<SPECIAL_COMMAND, BitOr(LCD_DISPLAYCONTROL, on)>>)
                    x4 == IF x3.ok THEN endTransmission(p, f, x3) ELSE x3
                IN  IF x4.ok THEN [mask |-> on, log |-> Delay(x4, 50).log, ret |-> TRUE]
                    ELSE [mask |-> on, log |-> x4.log, ret |-> FALSE]
            ELSE [mask |-> dc, log |-> x2.log, ret |-> FALSE]
    ELSE [mask |-> dc, log |-> x1.log, ret |-> FALSE]

\* setBacklight(r, g, b) without the line that clears LCD_DISPLAYON first
setBacklightDisplayKept(p, f, dc, r, g, b) ==
    LET x1 == beginTransmission(p, f, Start) IN
    IF x1.ok THEN
        LET x2  == transmitAll(p, f, x1,
                      <<SPECIAL_COMMAND, BitOr(LCD_DISPLAYCONTROL, dc),
                        SETTING_COMMAND, redValue(r),
                        SETTING_COMMAND, greenValue(g),
                        SETTING_COMMAND, blueValue(b)>>)
        IN  IF x2.ok THEN
                LET on == SetBit(dc, LCD_DISPLAYON)
                    x3 == transmitAll(p, f, x2,
                             <<SPECIAL_COMMAND, BitOr(LCD_DISPLAYCONTROL, on)>>)
                    x4 == IF x3.ok THEN endTransmission(p, f, x3) ELSE x3
                IN  IF x4.ok THEN [mask |-> on, log |-> Delay(x4, 50).log, ret |-> TRUE]
                    ELSE [mask |-> on, log |-> x4.log, ret |-> FALSE]
            ELSE [mask |-> dc, log |-> x2.log, ret |-> FALSE]
    ELSE [mask |-> dc, log |-> x1.log, ret |-> FALSE]

setBacklight(p, f, dc, r, g, b) ==
    LET x1 == beginTransmission(p, f, Start) IN
    IF x1.ok THEN
        LET off == ClearBit(dc, LCD_DISPLAYON)
            x2  == transmitAll(p, f, x1,
                      <<SPECIAL_COMMAND, BitOr(LCD_DISPLAYCONTROL, off),
                        SETTING_COMMAND, redValue(r),
                        SETTING_COMMAND, greenValue(g),
                        SETTING_COMMAND, blueValue(b)>>)
        IN  IF x2.ok THEN
                LET on == SetBit(off, LCD_DISPLAYON)
                    x3 == transmitAll(p, f, x2,
                             <<SPECIAL_COMMAND, BitOr(LCD_DISPLAYCONTROL, on)>>)
                    x4 == IF x3.ok THEN endTransmission(p, f, x3) ELSE x3
                IN  IF x4.ok THEN [mask |-> on, log |-> Delay(x4, 50).log, ret |-> TRUE]
                    ELSE [mask |-> on, log |-> x4.log, ret |-> FALSE]
            ELSE [mask |-> off, log |-> x2.log, ret |-> FALSE]
    ELSE [mask |-> dc, log |-> x1.log, ret |-> FALSE]

\* the bytes of 0x00RRGGBB
rgbRed(rgb) == BitAnd(rgb \div 65536, 255)

rgbGreen(rgb) == BitAnd(rgb \div 256, 255)

rgbBlue(rgb) == BitAnd(rgb, 255)

setBacklightRGB(p, f, dc, rgb) ==
    setBacklight(p, f, dc, rgbRed(rgb), rgbGreen(rgb), rgbBlue(rgb))

\* setFastBacklight sending the mapped values of the slow form
setFastBacklightMapped(p, f, r, g, b) ==
    Framed(p, f, <<SETTING_COMMAND, SET_RGB_COMMAND,
                   redValue(r), greenValue(g), blueValue(b)>>, 10)

setFastBacklight(p, f, r, g, b) ==
    Framed(p, f, <<SETTING_COMMAND, SET_RGB_COMMAND, r, g, b>>, 10)

setFastBacklightRGB(p, f, rgb) ==
    setFastBacklight(p, f, rgbRed(rgb), rgbGreen(rgb), rgbBlue(rgb))

\* setContrast that settles without calling endTransmission
setContrastUnclosed(p, f, new_val) ==
    LET x1 == beginTransmission(p, f, Start)
        x2 == IF x1.ok
              THEN transmitAll(p, f, x1, <<SETTING_COMMAND, CONTRAST_COMMAND, new_val>>)
              ELSE x1
    IN  IF x2.ok THEN [log |-> Delay(x2, 10).log, ret |-> TRUE]
        ELSE [log |-> x2.log, ret |-> FALSE]

setContrast(p, f, new_val) ==
    Framed(p, f, <<SETTING_COMMAND, CONTRAST_COMMAND, new_val>>, 10)

\* setAddress writing the shadow address whatever the outcome
setAddressAlways(p, f, new_addr) ==
    LET r == Framed(p, f, <<SETTING_COMMAND, ADDRESS_COMMAND, new_addr>>, 50) IN
    [addr |-> new_addr, log |-> r.log, ret |-> r.ret]

\* the shadow address is written only when the whole frame went through
setAddress(p, f, new_addr) ==
    LET r == Framed(p, f, <<SETTING_COMMAND, ADDRESS_COMMAND, new_addr>>, 50) IN
    IF r.ret THEN [addr |-> new_addr, log |-> r.log, ret |-> TRUE]
    ELSE [addr |-> p.addr, log |-> r.log, ret |-> FALSE]

----------------------------------------------------------------------------
(* Inputs of the operations *)

\* the primitive calls that fail, for an operation that stops at the first
\* call that fails, of the n it makes: none fails, or the k-th does (what
\* later calls would have returned makes no difference)
Fails(n) == {{}} \cup {{k} : k \in 1..min(n, MaxCalls)}

\* for an operation that goes on after a failed call: any of its n calls fail
FailSets(n) == SUBSET (1..n)

Addrs == {DISPLAY_ADDRESS1, 113}

Cols == {0, 1, 19, 44, 255}

Rows == {0, 1, 2, 3, 4, 255}

Locations == {0, 1, 7, 9, 255}

Charmaps == {<<0, 10, 31, 31, 14, 4, 0, 0>>, <<254, 124, 1, 2, 3, 4, 5, 255>>}

Counts == (0..MaxCount) \cup {BigCount}

Levels == {0, 128, 255}

Colours == {<<0, 0, 0>>, <<255, 255, 255>>, <<128, 1, 254>>}

\* 0x00000000, 0x00FFFFFF, 0x00123456, 0x7F80FF01
PackedColours == {0, 16777215, 1193046, 2139160321}

Data == {72, 73, 124, 254}

RECURSIVE SeqsUpTo(_, _)
SeqsUpTo(S, n) ==
    IF n = 0 THEN {<<>>}
    ELSE LET shorter == SeqsUpTo(S, n - 1) IN
         shorter \cup {Append(q, e) : q \in {t \in shorter : Len(t) = n - 1}, e \in S}

Buffers == SeqsUpTo({72, 73}, MaxSize) \cup {<<124, 254>>}

\* NULL, "", "H", "HI"
Strings == {<<>>, << <<>> >>, << <<72>> >>, << <<72, 73>> >>}

----------------------------------------------------------------------------
(* The session *)

Binding == [i2c |-> i2cPort, serial |-> serialPort, spi |-> spiPort,
            tx |-> spiTransaction, addr |-> i2cAddr, build |-> build]

Bool(b) == IF b THEN "true" ELSE "false"

NoCall == [name |-> "none", args |-> <<>>]

\* the transports whose pointer is not NULL
Active ==
    (IF i2cPort THEN {"i2c"} ELSE {})
        \cup (IF serialPort THEN {"serial"} ELSE {})
        \cup (IF spiPort THEN {"spi"} ELSE {})

NoPre == [dc |-> 0, dm |-> 0, addr |-> 0, active |-> {}, frame |-> FALSE]

\* whether a frame is open on the transport after the calls of lg, open
\* telling whether one was before them
RECURSIVE FrameAfter(_, _)
FrameAfter(open, lg) ==
    IF lg = <<>> THEN open
    ELSE FrameAfter(IF Head(lg).k = "open" /\ Head(lg).ok THEN TRUE
                    ELSE IF Head(lg).k = "close" THEN FALSE
                    ELSE open,
                    Tail(lg))

\* the state after construction (the member initializers of serLCD_cI2C.h)
Init ==
    /\ i2cPort = FALSE
    /\ serialPort = FALSE
    /\ spiPort = FALSE
    /\ spiTransaction = FALSE
    /\ i2cAddr = DISPLAY_ADDRESS1
    /\ displayControl = BitOr(BitOr(LCD_DISPLAYON, LCD_CURSOROFF), LCD_BLINKOFF)
    /\ displayMode = BitOr(LCD_ENTRYLEFT, LCD_ENTRYSHIFTDECREMENT)
    /\ pc = "idle"
    /\ op = NoCall
    /\ pre = NoPre
    /\ log = <<>>
    /\ ret = "void"
    /\ nret = 0
    /\ loop = 0
    /\ frameOpen = FALSE
    /\ build \in Builds

\* the host is between two calls
Idle == pc = "idle"

\* a call made by the host returns: what it did is on record
Returns(name, args, lg, rv, n) ==
    /\ pc' = "returned"
    /\ op' = [name |-> name, args |-> args]
    /\ pre' = [dc |-> displayControl, dm |-> displayMode, addr |-> i2cAddr,
                active |-> Active, frame |-> frameOpen]
    /\ frameOpen' = FrameAfter(frameOpen, lg)
    /\ UNCHANGED build
    /\ log' = lg
    /\ ret' = rv
    /\ nret' = n
    /\ loop' = 0

\* the host goes on to its next call
Resume ==
    /\ pc = "returned"
    /\ pc' = "idle"
    /\ op' = NoCall
    /\ pre' = NoPre
    /\ log' = <<>>
    /\ ret' = "void"
    /\ nret' = 0
    /\ loop' = 0
    /\ UNCHANGED <<shadow, frameOpen, build>>

\* begin(I2C&) going back to the address and the masks of the constructor
BeginI2CResetting ==
    Idle /\ \E f \in Fails(8) :
        LET r == init([Binding EXCEPT !.i2c = TRUE, !.serial = FALSE, !.spi = FALSE,
                                      !.addr = DISPLAY_ADDRESS1],
                      f, LCD_DISPLAYON, LCD_ENTRYLEFT) IN
        /\ i2cPort' = TRUE
        /\ serialPort' = FALSE
        /\ spiPort' = FALSE
        /\ i2cAddr' = DISPLAY_ADDRESS1
        /\ displayControl' = LCD_DISPLAYON
        /\ displayMode' = LCD_ENTRYLEFT
        /\ Returns("beginI2C", <<>>, r.log, Bool(r.ret), 0)
        /\ UNCHANGED spiTransaction

BeginI2C ==
    Idle /\ \E f \in Fails(8) :
        LET r == init([Binding EXCEPT !.i2c = TRUE, !.serial = FALSE, !.spi = FALSE],
                      f, displayControl, displayMode) IN
        /\ i2cPort' = TRUE
        /\ serialPort' = FALSE
        /\ spiPort' = FALSE
        /\ Returns("beginI2C", <<>>, r.log, Bool(r.ret), 0)
        /\ UNCHANGED <<spiTransaction, i2cAddr, displayControl, displayMode>>

BeginI2CAddr ==
    Idle /\ \E a \in Addrs, f \in Fails(8) :
        LET r == init([Binding EXCEPT !.i2c = TRUE, !.serial = FALSE, !.spi = FALSE,
                                      !.addr = a],
                      f, displayControl, displayMode) IN
        /\ i2cAddr' = a
        /\ i2cPort' = TRUE
        /\ serialPort' = FALSE
        /\ spiPort' = FALSE
        /\ Returns("beginI2CAddr", <<a>>, r.log, "void", 0)
        /\ UNCHANGED <<spiTransaction, displayControl, displayMode>>

\* begin(Stream&) without the line that sets _i2cPort to NULL
BeginSerialKeepsI2C ==
    Idle /\ \E f \in Fails(8) :
        LET r == init([Binding EXCEPT !.serial = TRUE, !.spi = FALSE],
                      f, displayControl, displayMode) IN
        /\ serialPort' = TRUE
        /\ spiPort' = FALSE
        /\ Returns("beginSerial", <<>>, r.log, "void", 0)
        /\ UNCHANGED <<i2cPort, spiTransaction, i2cAddr, displayControl, displayMode>>

BeginSerial ==
    Idle /\ \E f \in Fails(8) :
        LET r == init([Binding EXCEPT !.i2c = FALSE, !.serial = TRUE, !.spi = FALSE],
                      f, displayControl, displayMode) IN
        /\ serialPort' = TRUE
        /\ i2cPort' = FALSE
        /\ spiPort' = FALSE
        /\ Returns("beginSerial", <<>>, r.log, "void", 0)
        /\ UNCHANGED <<spiTransaction, i2cAddr, displayControl, displayMode>>

BeginSPI ==
    Idle /\ \E f \in Fails(8) :
        LET r == init([Binding EXCEPT !.i2c = FALSE, !.serial = FALSE, !.spi = TRUE],
                      f, displayControl, displayMode) IN
        /\ spiPort' = TRUE
        /\ i2cPort' = FALSE
        /\ serialPort' = FALSE
        /\ Returns("beginSPI", <<>>, r.log, "void", 0)
        /\ UNCHANGED <<spiTransaction, i2cAddr, displayControl, displayMode>>

BeginSPISettings ==
    Idle /\ \E f \in Fails(8) :
        LET r == init([Binding EXCEPT !.i2c = FALSE, !.serial = FALSE, !.spi = TRUE,
                                      !.tx = TRUE],
                      f, displayControl, displayMode) IN
        /\ spiTransaction' = TRUE
        /\ spiPort' = TRUE
        /\ i2cPort' = FALSE
        /\ serialPort' = FALSE
        /\ Returns("beginSPISettings", <<>>, r.log, "void", 0)
        /\ UNCHANGED <<i2cAddr, displayControl, displayMode>>

\* an operation that returns bool and writes no shadow field
Plain(name, args, r) ==
    /\ Returns(name, args, r.log, Bool(r.ret), 0)
    /\ UNCHANGED shadow

\* a toggle of a displayControl bit
Control(name, args, r) ==
    /\ displayControl' = r.mask
    /\ Returns(name, args, r.log, Bool(r.ret), 0)
    /\ UNCHANGED <<i2cPort, serialPort, spiPort, spiTransaction, i2cAddr, displayMode>>

\* a toggle of a displayMode bit
Mode(name, r) ==
    /\ displayMode' = r.mask
    /\ Returns(name, <<>>, r.log, Bool(r.ret), 0)
    /\ UNCHANGED <<i2cPort, serialPort, spiPort, spiTransaction, i2cAddr, displayControl>>

Command == Idle /\ \E c \in Data, f \in Fails(4) : Plain("command", <<c>>, command(Binding, f, c))

SpecialCommand ==
    Idle /\ \E c \in Data, f \in Fails(4) : Plain("specialCommand", <<c>>, specialCommand(Binding, f, c))

SpecialCommandCount ==
    Idle /\ \E c \in {LCD_RETURNHOME}, n \in Counts : \E f \in Fails(2 * n + 2) :
        Plain("specialCommandCount", <<c, n>>, specialCommandCount(Binding, f, c, n))

Clear == Idle /\ \E f \in Fails(4) : Plain("clear", <<>>, clear(Binding, f))

Home == Idle /\ \E f \in Fails(4) : Plain("home", <<>>, home(Binding, f))

SetCursor ==
    Idle /\ \E col \in Cols, row \in Rows, f \in Fails(4) :
        Plain("setCursor", <<col, row>>, setCursor(Binding, f, col, row))

CreateChar ==
    Idle /\ \E location \in Locations, charmap \in Charmaps, f \in Fails(12) :
        Plain("createChar", <<location>> \o charmap,
              createChar(Binding, f, location, charmap))

WriteChar ==
    Idle /\ \E location \in Locations, f \in Fails(4) :
        Plain("writeChar", <<location>>, writeChar(Binding, f, location))

\* a call runs off the end of its function: there is no return instruction
\* and the program is lost
Crashes(name, args, lg) ==
    /\ pc' = "crashed"
    /\ op' = [name |-> name, args |-> args]
    /\ pre' = [dc |-> displayControl, dm |-> displayMode, addr |-> i2cAddr,
                active |-> Active, frame |-> frameOpen]
    /\ frameOpen' = FrameAfter(frameOpen, lg)
    /\ log' = lg
    /\ ret' = "void"
    /\ UNCHANGED <<nret, loop, build>>

\* write(uint8_t) flows off its end after delay(10): the size_t the caller
\* reads is indeterminate, or the call does not return at all
WriteByte ==
    Idle /\ \E b \in Data, f \in FailSets(3) :
        /\ IF build = "assumed"
           THEN Crashes("writeByte", <<b>>, writeByte(Binding, f, b).log)
           ELSE Returns("writeByte", <<b>>, writeByte(Binding, f, b).log,
                        "indeterminate", 0)
        /\ UNCHANGED shadow

WriteBuffer ==
    Idle /\ \E buffer \in Buffers : \E f \in FailSets(Len(buffer) + 2) :
        LET r == writeBuffer(Binding, f, buffer) IN
        /\ Returns("writeBuffer", buffer, r.log, "size", r.n)
        /\ UNCHANGED shadow

WriteStr ==
    Idle /\ \E str \in Strings : \E f \in FailSets(IF str = <<>> THEN 0 ELSE Len(str[1]) + 2) :
        LET r == writeStr(Binding, f, str) IN
        /\ Returns("writeStr", IF str = <<>> THEN <<>> ELSE str[1], r.log, "size", r.n)
        /\ UNCHANGED shadow

NoDisplay == Idle /\ \E f \in Fails(4) : Control("noDisplay", <<>>, noDisplay(Binding, f, displayControl))

Display == Idle /\ \E f \in Fails(4) : Control("display", <<>>, display(Binding, f, displayControl))

NoCursor == Idle /\ \E f \in Fails(4) : Control("noCursor", <<>>, noCursor(Binding, f, displayControl))

Cursor == Idle /\ \E f \in Fails(4) : Control("cursor", <<>>, cursor(Binding, f, displayControl))

NoBlink == Idle /\ \E f \in Fails(4) : Control("noBlink", <<>>, noBlink(Binding, f, displayControl))

Blink == Idle /\ \E f \in Fails(4) : Control("blink", <<>>, blink(Binding, f, displayControl))

LeftToRight == Idle /\ \E f \in Fails(4) : Mode("leftToRight", leftToRight(Binding, f, displayMode))

RightToLeft == Idle /\ \E f \in Fails(4) : Mode("rightToLeft", rightToLeft(Binding, f, displayMode))

Autoscroll == Idle /\ \E f \in Fails(4) : Mode("autoscroll", autoscroll(Binding, f, displayMode))

NoAutoscroll == Idle /\ \E f \in Fails(4) : Mode("noAutoscroll", noAutoscroll(Binding, f, displayMode))

ScrollDisplayLeft ==
    Idle /\ \E f \in Fails(4) : Plain("scrollDisplayLeft", <<>>, scrollDisplayLeft(Binding, f))

ScrollDisplayLeftCount ==
    Idle /\ \E n \in Counts : \E f \in Fails(2 * n + 2) :
        Plain("scrollDisplayLeftCount", <<n>>, scrollDisplayLeftCount(Binding, f, n))

ScrollDisplayRight ==
    Idle /\ \E f \in Fails(4) : Plain("scrollDisplayRight", <<>>, scrollDisplayRight(Binding, f))

ScrollDisplayRightCount ==
    Idle /\ \E n \in Counts : \E f \in Fails(2 * n + 2) :
        Plain("scrollDisplayRightCount", <<n>>, scrollDisplayRightCount(Binding, f, n))

MoveCursorLeft ==
    Idle /\ \E f \in Fails(4) : Plain("moveCursorLeft", <<>>, moveCursorLeft(Binding, f))

MoveCursorLeftCount ==
    Idle /\ \E n \in Counts : \E f \in Fails(2 * n + 2) :
        Plain("moveCursorLeftCount", <<n>>, moveCursorLeftCount(Binding, f, n))

MoveCursorRight ==
    Idle /\ \E f \in Fails(4) : Plain("moveCursorRight", <<>>, moveCursorRight(Binding, f))

MoveCursorRightCount ==
    Idle /\ \E n \in Counts : \E f \in Fails(2 * n + 2) :
        Plain("moveCursorRightCount", <<n>>, moveCursorRightCount(Binding, f, n))

SetBacklight ==
    Idle /\ \E c \in Colours, f \in Fails(12) :
        Control("setBacklight", c,
                setBacklight(Binding, f, displayControl, c[1], c[2], c[3]))

SetBacklightRGB ==
    Idle /\ \E rgb \in PackedColours, f \in Fails(12) :
        Control("setBacklightRGB", <<rgb>>,
                setBacklightRGB(Binding, f, displayControl, rgb))

SetFastBacklight ==
    Idle /\ \E c \in Colours, f \in Fails(7) :
        Plain("setFastBacklight", c, setFastBacklight(Binding, f, c[1], c[2], c[3]))

SetFastBacklightRGB ==
    Idle /\ \E rgb \in PackedColours, f \in Fails(7) :
        Plain("setFastBacklightRGB", <<rgb>>, setFastBacklightRGB(Binding, f, rgb))

SetContrast ==
    Idle /\ \E v \in Levels, f \in Fails(5) :
        Plain("setContrast", <<v>>, setContrast(Binding, f, v))

SetAddress ==
    Idle /\ \E a \in Addrs, f \in Fails(5) :
        LET r == setAddress(Binding, f, a) IN
        /\ i2cAddr' = r.addr
        /\ Returns("setAddress", <<a>>, r.log, Bool(r.ret), 0)
        /\ UNCHANGED <<i2cPort, serialPort, spiPort, spiTransaction, displayControl,
                       displayMode>>

Next ==
    \/ Resume
    \/ BeginI2C \/ BeginI2CAddr \/ BeginSerial \/ BeginSPI \/ BeginSPISettings
    \/ Command \/ SpecialCommand \/ SpecialCommandCount
    \/ Clear \/ Home \/ SetCursor \/ CreateChar \/ WriteChar
    \/ WriteByte \/ WriteBuffer \/ WriteStr
    \/ NoDisplay \/ Display \/ NoCursor \/ Cursor \/ NoBlink \/ Blink
    \/ LeftToRight \/ RightToLeft \/ Autoscroll \/ NoAutoscroll
    \/ ScrollDisplayLeft \/ ScrollDisplayLeftCount
    \/ ScrollDisplayRight \/ ScrollDisplayRightCount
    \/ MoveCursorLeft \/ MoveCursorLeftCount
    \/ MoveCursorRight \/ MoveCursorRightCount
    \/ SetBacklight \/ SetBacklightRGB \/ SetFastBacklight \/ SetFastBacklightRGB
    \/ SetContrast \/ SetAddress

Spec == Init /\ [][Next]_vars

----------------------------------------------------------------------------
(* The operations that loop, and write(uint8_t), step by step.  pc is      *)
(* "open" before the call of beginTransmission, "loop" at the test of the  *)
(* loop and "close" before the call of endTransmission; loop is the loop   *)
(* variable.  A step is made of the primitive calls between two tests of   *)
(* the loop; f is the set of those calls that fail (1 = the first call of  *)
(* the step).                                                              *)

\* the counts of the repeated commands, with the largest byte
StepCounts == Counts \cup {255}

\* the host calls an operation
Calls(name, args) ==
    /\ pc' = "open"
    /\ op' = [name |-> name, args |-> args]
    /\ pre' = [dc |-> displayControl, dm |-> displayMode, addr |-> i2cAddr,
                active |-> Active, frame |-> frameOpen]
    /\ UNCHANGED <<log, ret, nret, loop, shadow, frameOpen, build>>

\* the record of the running operation at the beginning of a step
Here == [log |-> log, n |-> 0, ok |-> TRUE]

\* the calls a step has added to the log
Added(x) == SubSeq(x.log, Len(log) + 1, Len(x.log))

\* the step that made the calls of x goes on to the position at with the
\* loop variable lp and the count n
Runs(at, x, lp, n) ==
    /\ pc' = at
    /\ log' = x.log
    /\ frameOpen' = FrameAfter(frameOpen, Added(x))
    /\ loop' = lp
    /\ nret' = n
    /\ UNCHANGED <<op, pre, ret, shadow, build>>

\* the step that made the calls of x executes a return statement
Leaves(x, rv, n) ==
    /\ pc' = "returned"
    /\ log' = x.log
    /\ frameOpen' = FrameAfter(frameOpen, Added(x))
    /\ ret' = rv
    /\ nret' = n
    /\ loop' = 0
    /\ UNCHANGED <<op, pre, shadow, build>>

At(name, at) == pc = at /\ op.name = name

SpecialCommandCountCall ==
    Idle /\ \E c \in {LCD_RETURNHOME}, count \in StepCounts :
        Calls("specialCommandCount", <<c, count>>)

SpecialCommandCountOpen ==
    At("specialCommandCount", "open") /\ \E f \in Fails(1) :
        LET x == beginTransmission(Binding, f, Here) IN
        IF x.ok THEN Runs("loop", x, 0, 0) ELSE Leaves(x, "false", 0)

SpecialCommandCountLoop ==
    At("specialCommandCount", "loop") /\
        IF loop < op.args[2] THEN
            \E f \in Fails(2) :
                LET x == transmitAll(Binding, f, Here, <<SPECIAL_COMMAND, op.args[1]>>) IN
                IF x.ok THEN Runs("loop", x, loop + 1, 0) ELSE Leaves(x, "false", 0)
        ELSE Runs("close", Here, loop, 0)

SpecialCommandCountClose ==
    At("specialCommandCount", "close") /\ \E f \in Fails(1) :
        LET x == endTransmission(Binding, f, Here) IN
        IF x.ok THEN Leaves(Delay(x, 50), "true", 0) ELSE Leaves(x, "false", 0)

CreateCharCall ==
    Idle /\ \E location \in Locations, charmap \in Charmaps :
        Calls("createChar", <<location>> \o charmap)

CreateCharOpen ==
    At("createChar", "open") /\ \E f \in Fails(3) :
        LET x1 == beginTransmission(Binding, f, Here)
            x2 == IF x1.ok
                  THEN transmitAll(Binding, f, x1,
                                   <<SETTING_COMMAND, 27 + BitAnd(op.args[1], 7)>>)
                  ELSE x1
        IN  IF x2.ok THEN Runs("loop", x2, 0, 0) ELSE Leaves(x2, "false", 0)

CreateCharLoop ==
    At("createChar", "loop") /\
        IF loop < 8 THEN
            \E f \in Fails(1) :
                LET x == transmit(Binding, f, Here, op.args[loop + 2]) IN
                IF x.ok THEN Runs("loop", x, loop + 1, 0) ELSE Leaves(x, "false", 0)
        ELSE Runs("close", Here, loop, 0)

CreateCharClose ==
    At("createChar", "close") /\ \E f \in Fails(1) :
        LET x == endTransmission(Binding, f, Here) IN
        IF x.ok THEN Leaves(Delay(x, 50), "true", 0) ELSE Leaves(x, "false", 0)

\* loop is size, what is left of the buffer; nret is n
WriteBufferCall == Idle /\ \E buffer \in Buffers : Calls("writeBuffer", buffer)

WriteBufferOpen ==
    At("writeBuffer", "open") /\ \E f \in FailSets(1) :
        Runs("loop", beginTransmission(Binding, f, Here), Len(op.args), 0)

WriteBufferLoop ==
    At("writeBuffer", "loop") /\
        IF loop # 0 THEN
            \E f \in FailSets(1) :
                Runs("loop", transmit(Binding, f, Here, op.args[nret + 1]),
                     loop - 1, nret + 1)
        ELSE Runs("close", Here, loop, nret)

WriteBufferClose ==
    At("writeBuffer", "close") /\ \E f \in FailSets(1) :
        Leaves(Delay(endTransmission(Binding, f, Here), 10), "size", nret)

WriteByteCall == Idle /\ \E b \in Data : Calls("writeByte", <<b>>)

\* the four statements of write(uint8_t) and the end of the function, which
\* has no return statement
WriteByteBody ==
    At("writeByte", "open") /\ \E f \in FailSets(3) :
        LET x == [log |-> writeByte(Binding, f, op.args[1]).log] IN
        IF build = "assumed"
        THEN /\ pc' = "crashed"
             /\ log' = x.log
             /\ frameOpen' = FrameAfter(frameOpen, x.log)
             /\ UNCHANGED <<op, pre, ret, nret, loop, shadow, build>>
        ELSE Leaves(x, "indeterminate", 0)

\* the processor executes the next step of the operation that is running
Run ==
    \/ SpecialCommandCountOpen \/ SpecialCommandCountLoop \/ SpecialCommandCountClose
    \/ CreateCharOpen \/ CreateCharLoop \/ CreateCharClose
    \/ WriteBufferOpen \/ WriteBufferLoop \/ WriteBufferClose
    \/ WriteByteBody

StepNext ==
    \/ Resume
    \/ BeginI2C \/ BeginI2CAddr \/ BeginSerial \/ BeginSPI \/ BeginSPISettings
    \/ SpecialCommandCountCall \/ CreateCharCall \/ WriteBufferCall \/ WriteByteCall
    \/ Run

\* the code is synchronous and single-threaded and every primitive call
\* returns: an operation that has been called keeps executing
StepSpec == Init /\ [][StepNext]_vars /\ WF_vars(Run)

----------------------------------------------------------------------------
(* What a log shows *)

Returned(names) == pc = "returned" /\ op.name \in names

\* the transmit calls of a log, in order
Sent(lg) == SelectSeq(lg, LAMBDA e : e.k = "send")

\* the bytes of the transmit calls of a log, in order
SentBytes(lg) == [i \in 1..Len(Sent(lg)) |-> Sent(lg)[i].v]

\* no primitive call of the log reported a failure
AllOk(lg) == \A i \in 1..Len(lg) : lg[i].ok

\* the frame of a log: its primitive calls and settle delays as <<kind, value>>,
\* without the address of the open and without what the SPI transport adds
\* inside beginTransmission and endTransmission
Frame(lg) ==
    LET kept == SelectSeq(lg, LAMBDA e : e.k \in {"open", "send", "close", "delay"}) IN
    [i \in 1..Len(kept) |-> <<kept[i].k, IF kept[i].k = "open" THEN 0 ELSE kept[i].v>>]

\* the frame of a successful call that sends bytes and then settles ms
FrameOf(bytes, ms) ==
    <<(<<"open", 0>>)>> \o [i \in 1..Len(bytes) |-> <<"send", bytes[i]>>]
        \o <<(<<"close", 0>>), <<"delay", ms>> >>

----------------------------------------------------------------------------
(* C1: in createChar, setBacklight(r,g,b) and setCursor, when a transmit    *)
(* reports a failure the operation returns false and no transmit call      *)
(* follows the failed one.                                                 *)

C1_FailedSendStops ==
    Returned({"createChar", "setBacklight", "setCursor"}) =>
        \A i \in 1..Len(log) :
            (log[i].k = "send" /\ ~log[i].ok) =>
                /\ ret = "false"
                /\ \A j \in (i + 1)..Len(log) : log[j].k # "send"

\* setBacklight has returned after its eighth byte failed on I2C
C1_Witness ==
    /\ Returned({"setBacklight"})
    /\ i2cPort
    /\ Len(log) = 9
    /\ log[9].k = "send" /\ ~log[9].ok
    /\ \A i \in 1..8 : log[i].ok
    /\ ret = "false"

----------------------------------------------------------------------------
(* C2: setAddress writes the shadow address exactly when it returns true,  *)
(* which on I2C is when the open, the three bytes and the close all went   *)
(* through; and every operation opens its frame at the shadow address it   *)
(* was called with, so the operation after a successful setAddress(a) is   *)
(* addressed to a and the one after a failed setAddress to the old address.*)

C2_AddressFollowsSuccess ==
    [][/\ (pc' = "returned" /\ op'.name = "setAddress") =>
             /\ i2cAddr' = (IF ret' = "true" THEN op'.args[1] ELSE i2cAddr)
             /\ i2cPort' => (ret' = "true" <=> (AllOk(log') /\ Len(log') = 6))
       /\ pc = "returned" => i2cAddr' = i2cAddr
       /\ (pc' = "returned" /\ i2cPort' /\ op'.name # "beginI2CAddr") =>
             \A i \in 1..Len(log') : log'[i].k = "open" => log'[i].v = i2cAddr
      ]_vars

\* setAddress(0x71) has succeeded on a session that was addressed to 0x72
C2_Witness ==
    /\ Returned({"setAddress"})
    /\ i2cPort
    /\ ret = "true"
    /\ op.args = <<113>>
    /\ pre.addr = DISPLAY_ADDRESS1
    /\ log[1] = Ev("open", DISPLAY_ADDRESS1, TRUE)
    /\ i2cAddr = 113

----------------------------------------------------------------------------
(* C3: a flag toggle changes its one bit of the shadow mask and then sends *)
(* the special marker followed by the command base OR'd with the whole     *)
(* mask as it stands after the change.                                     *)

ControlToggles == {"noDisplay", "display", "noCursor", "cursor", "noBlink", "blink"}

ModeToggles == {"leftToRight", "rightToLeft", "autoscroll", "noAutoscroll"}

\* the bit a toggle writes, and the value it gives it
ToggleBit(name) ==
    CASE name \in {"noDisplay", "display"} -> 4
      [] name \in {"noCursor", "cursor"} -> 2
      [] name \in {"noBlink", "blink"} -> 1
      [] name \in {"leftToRight", "rightToLeft"} -> 2
      [] name \in {"autoscroll", "noAutoscroll"} -> 1

ToggleOn(name) == name \in {"display", "cursor", "blink", "leftToRight", "autoscroll"}

\* the mask m with the bit (a power of two) set or cleared
WithBit(m, bit, on) == m - ((m \div bit) % 2) * bit + (IF on THEN bit ELSE 0)

C3_ToggleSendsWholeMask ==
    Returned(ControlToggles \cup ModeToggles) =>
        LET control == op.name \in ControlToggles
            before  == IF control THEN pre.dc ELSE pre.dm
            after   == IF control THEN displayControl ELSE displayMode
            base    == IF control THEN 8 ELSE 4
        IN  /\ after = WithBit(before, ToggleBit(op.name), ToggleOn(op.name))
            /\ Len(Sent(log)) <= 2
            /\ Len(Sent(log)) >= 1 => SentBytes(log)[1] = 254
            /\ Len(Sent(log)) = 2 => SentBytes(log)[2] = BitOr(base, after)
            /\ (AllOk(log) /\ (i2cPort \/ serialPort \/ spiPort)) => Len(Sent(log)) = 2

\* cursor() on a mask that had the display and blink bits set sent 0x0F
C3_Witness ==
    /\ Returned({"cursor"})
    /\ pre.dc = 5
    /\ displayControl = 7
    /\ SentBytes(log) = <<254, 15>>
    /\ ret = "true"

----------------------------------------------------------------------------
(* C4: two opposite toggles called one after the other.  The mask a toggle *)
(* leaves does not depend on the transport, so the second call is taken on *)
(* the state the first one returned in.                                    *)

Opposite(name) ==
    CASE name = "noDisplay" -> "display" [] name = "display" -> "noDisplay"
      [] name = "noCursor" -> "cursor" [] name = "cursor" -> "noCursor"
      [] name = "noBlink" -> "blink" [] name = "blink" -> "noBlink"
      [] name = "leftToRight" -> "rightToLeft" [] name = "rightToLeft" -> "leftToRight"
      [] name = "autoscroll" -> "noAutoscroll" [] name = "noAutoscroll" -> "autoscroll"

\* the mask the toggle called name leaves when called on the mask m
MaskAfter(name, m) ==
    CASE name = "noDisplay" -> noDisplay(Binding, {}, m).mask
      [] name = "display" -> display(Binding, {}, m).mask
      [] name = "noCursor" -> noCursor(Binding, {}, m).mask
      [] name = "cursor" -> cursor(Binding, {}, m).mask
      [] name = "noBlink" -> noBlink(Binding, {}, m).mask
      [] name = "blink" -> blink(Binding, {}, m).mask
      [] name = "leftToRight" -> leftToRight(Binding, {}, m).mask
      [] name = "rightToLeft" -> rightToLeft(Binding, {}, m).mask
      [] name = "autoscroll" -> autoscroll(Binding, {}, m).mask
      [] name = "noAutoscroll" -> noAutoscroll(Binding, {}, m).mask

MaskBefore == IF op.name \in ControlToggles THEN pre.dc ELSE pre.dm

MaskNow == IF op.name \in ControlToggles THEN displayControl ELSE displayMode

\* C4 as stated: after any toggle, the opposite toggle gives back the mask
\* the first one started from
C4_AlwaysRestored ==
    Returned(ControlToggles \cup ModeToggles) =>
        MaskAfter(Opposite(op.name), MaskNow) = MaskBefore

\* C4 amended: the pair gives back the mask the first call started from
\* exactly when the first call changed the mask; when the flag already had
\* the value the first call gives it, the pair leaves that one bit inverted;
\* in both cases every other bit is as it was.
C4_RestoredWhenChanged ==
    Returned(ControlToggles \cup ModeToggles) =>
        LET bit   == ToggleBit(op.name)
            after == MaskAfter(Opposite(op.name), MaskNow)
        IN  /\ (after = MaskBefore) <=> (MaskNow # MaskBefore)
            /\ after = WithBit(MaskBefore, bit, ~ToggleOn(op.name))

\* blink() has turned the mask 6 into 7, so noBlink() now restores 6; from
\* the same mask 7, cursor() changes nothing and noCursor() then leaves 5
C4_Witness ==
    /\ Returned({"blink"})
    /\ pre.dc = 6
    /\ displayControl = 7
    /\ MaskAfter("noBlink", displayControl) = 6
    /\ MaskAfter("noCursor", MaskAfter("cursor", displayControl)) = 5

----------------------------------------------------------------------------
(* C5: a repeated scroll or move with count N, when no primitive call      *)
(* fails, is one open, N pairs (254, command), one close and one delay of  *)
(* 50, in this order; with N = 0 the frame is opened, closed and settled   *)
(* with no pair in it.                                                     *)

CountOps == {"specialCommandCount", "scrollDisplayLeftCount", "scrollDisplayRightCount",
             "moveCursorLeftCount", "moveCursorRightCount"}

CountOf(o) == IF o.name = "specialCommandCount" THEN o.args[2] ELSE o.args[1]

\* 0x10 | 0x08 | 0x00, 0x10 | 0x08 | 0x04, 0x10 | 0x00 | 0x00, 0x10 | 0x00 | 0x04
CommandOf(o) ==
    CASE o.name = "specialCommandCount" -> o.args[1]
      [] o.name = "scrollDisplayLeftCount" -> 24
      [] o.name = "scrollDisplayRightCount" -> 28
      [] o.name = "moveCursorLeftCount" -> 16
      [] o.name = "moveCursorRightCount" -> 20

RECURSIVE Pairs(_, _)
Pairs(c, n) == IF n = 0 THEN <<>> ELSE <<254, c>> \o Pairs(c, n - 1)

C5_CountPairsOneFrame ==
    (Returned(CountOps) /\ AllOk(log)) =>
        /\ Frame(log) = FrameOf(Pairs(CommandOf(op), CountOf(op)), 50)
        /\ i2cPort => Len(log) = 2 * CountOf(op) + 3
        /\ ret = "true"

\* scrollDisplayRight(0) has returned true on I2C: open, close, delay 50
C5_Witness ==
    /\ Returned({"scrollDisplayRightCount"})
    /\ i2cPort
    /\ op.args = <<0>>
    /\ Frame(log) = <<(<<"open", 0>>), <<"close", 0>>, <<"delay", 50>> >>
    /\ ret = "true"

----------------------------------------------------------------------------
(* C6: setCursor(col, row) sends, after the special marker, the byte        *)
(* 0x80 | (offset + col), where offset is the entry of {0x00, 0x40, 0x14,   *)
(* 0x54} for the row clamped into 0..3; the column is not clamped, and the  *)
(* value is cut to a byte when it is passed to specialCommand(byte).        *)

CursorByte(col, row) ==
    LET r == IF row > 3 THEN 3 ELSE row
        offset == CASE r = 0 -> 0 [] r = 1 -> 64 [] r = 2 -> 20 [] r = 3 -> 84
    IN  BitOr(128, offset + col) % 256

\* for every byte value of col and row
C6_EveryColRow ==
    \A col \in Byte, row \in Byte : setCursorCommand(col, row) = CursorByte(col, row)

C6_CursorByte ==
    /\ C6_EveryColRow
    /\ Returned({"setCursor"}) =>
          /\ Len(Sent(log)) <= 2
          /\ Len(Sent(log)) >= 1 => SentBytes(log)[1] = 254
          /\ Len(Sent(log)) = 2 => SentBytes(log)[2] = CursorByte(op.args[1], op.args[2])

\* setCursor(44, 255) has sent 0x80 | (0x54 + 44): row 255 is taken as row 3
\* and column 44, past the last column, is added as it is
C6_Witness ==
    /\ Returned({"setCursor"})
    /\ op.args = <<44, 255>>
    /\ SentBytes(log) = <<254, 128>>
    /\ ret = "true"

----------------------------------------------------------------------------
(* C7: setBacklight(r, g, b) sends red = 128 + r*29/255, green = 158 +      *)
(* g*29/255 and blue = 188 + b*29/255 in integer division: 0 gives the      *)
(* base of the range, 255 its top, every input a value of the range, and    *)
(* the values do not decrease as the input grows.                           *)

C7_EveryLevel ==
    /\ \A x \in Byte :
          /\ redValue(x) = 128 + (x * 29) \div 255
          /\ greenValue(x) = 158 + (x * 29) \div 255
          /\ blueValue(x) = 188 + (x * 29) \div 255
          /\ redValue(x) \in 128..157
          /\ greenValue(x) \in 158..187
          /\ blueValue(x) \in 188..217
    /\ \A x \in 0..254 :
          /\ redValue(x) <= redValue(x + 1)
          /\ greenValue(x) <= greenValue(x + 1)
          /\ blueValue(x) <= blueValue(x + 1)
    /\ <<redValue(0), greenValue(0), blueValue(0)>> = <<128, 158, 188>>
    /\ <<redValue(255), greenValue(255), blueValue(255)>> = <<157, 187, 217>>

C7_BacklightMapping ==
    /\ C7_EveryLevel
    /\ (Returned({"setBacklight"}) /\ Len(Sent(log)) >= 8) =>
          /\ SentBytes(log)[4] = 128 + (op.args[1] * 29) \div 255
          /\ SentBytes(log)[6] = 158 + (op.args[2] * 29) \div 255
          /\ SentBytes(log)[8] = 188 + (op.args[3] * 29) \div 255

\* setBacklight(128, 1, 254) has sent 142, 158 and 216
C7_Witness ==
    /\ Returned({"setBacklight"})
    /\ op.args = <<128, 1, 254>>
    /\ ret = "true"
    /\ SentBytes(log)[4] = 142
    /\ SentBytes(log)[6] = 158
    /\ SentBytes(log)[8] = 216

----------------------------------------------------------------------------
(* C8: write(buffer, size), when no primitive call fails, is one open, the  *)
(* size bytes of the buffer in order and nothing else, one close and one    *)
(* delay of 10; it returns size.                                            *)

C8_WriteOneFrame ==
    (Returned({"writeBuffer"}) /\ AllOk(log)) =>
        /\ Frame(log) = FrameOf(op.args, 10)
        /\ ret = "size"
        /\ nret = Len(op.args)

\* write("HI", 2) has returned 2 on I2C
C8_Witness ==
    /\ Returned({"writeBuffer"})
    /\ i2cPort
    /\ AllOk(log)
    /\ op.args = <<72, 73>>
    /\ Len(log) = 5
    /\ nret = 2

----------------------------------------------------------------------------
(* C9: in write(buffer, size), when the open or the transmit of a byte      *)
(* fails, no byte is sent after it and the call does not return the full    *)
(* size.                                                                    *)

C9_WriteStopsOnFailure ==
    Returned({"writeBuffer"}) =>
        \A i \in 1..Len(log) :
            (log[i].k \in {"open", "send"} /\ ~log[i].ok) =>
                /\ \A j \in (i + 1)..Len(log) : log[j].k # "send"
                /\ Len(op.args) > 0 => nret < Len(op.args)

----------------------------------------------------------------------------
(* C10: createChar(location, charmap), when no primitive call fails, is one *)
(* open, 0x7C, 27 + (location & 7), the 8 bytes of charmap in index order,  *)
(* one close and a delay of 50.                                             *)

\* for every byte value of location, on a transport where nothing fails
C10_EveryLocation ==
    \A location \in Byte :
        LET r == createChar([i2c |-> TRUE, serial |-> FALSE, spi |-> FALSE,
                             tx |-> FALSE, addr |-> DISPLAY_ADDRESS1,
                             build |-> "plain"],
                            {}, location, <<1, 2, 3, 4, 5, 6, 7, 8>>)
        IN  /\ r.ret
            /\ Frame(r.log) = FrameOf(<<124, 27 + (location % 8), 1, 2, 3, 4, 5, 6, 7, 8>>, 50)

C10_CreateCharFrame ==
    /\ C10_EveryLocation
    /\ (Returned({"createChar"}) /\ AllOk(log)) =>
          /\ Frame(log) = FrameOf(<<124, 27 + (op.args[1] % 8)>> \o SubSeq(op.args, 2, 9), 50)
          /\ ret = "true"

\* createChar(9, ..) has selected slot 1 with the byte 28
C10_Witness ==
    /\ Returned({"createChar"})
    /\ i2cPort
    /\ op.args[1] = 9
    /\ ret = "true"
    /\ Len(log) = 13
    /\ SentBytes(log)[2] = 28

----------------------------------------------------------------------------
(* C11: at most one of _i2cPort, _serialPort and _spiPort is set at any     *)
(* time; when a begin has returned, the transport it was given is the one  *)
(* that is set, whatever was set before; when any other operation has      *)
(* returned, the set transport is the one the operation started with.      *)

BeginOps == {"beginI2C", "beginI2CAddr", "beginSerial", "beginSPI", "beginSPISettings"}

\* the transport a begin overload is given
Given(name) ==
    IF name \in {"beginI2C", "beginI2CAddr"} THEN "i2c"
    ELSE IF name = "beginSerial" THEN "serial"
    ELSE "spi"

C11_OneTransportActive ==
    /\ Cardinality(Active) <= 1
    /\ Returned(BeginOps) => Active = {Given(op.name)}
    /\ (pc = "returned" /\ op.name \notin BeginOps) => Active = pre.active

\* begin(Stream&) has returned on a session that was bound to I2C
C11_Witness ==
    /\ Returned({"beginSerial"})
    /\ pre.active = {"i2c"}
    /\ Active = {"serial"}

----------------------------------------------------------------------------
(* C12: an operation that returns bool, called while no transport is set    *)
(* (begin was never called), returns false and performs no settle delay.   *)
(* No byte can leave the driver in that state, there being no port to      *)
(* write to; the "send" entries of the log are then calls of transmit that *)
(* reach no port.  beginTransmission, transmit and endTransmission take no *)
(* branch in that state and flow off their end without a return statement. *)

\* the operation that has returned is one that reports success as a bool
ReportsBool == pc = "returned" /\ op.name \notin BeginOps /\ ret \in {"true", "false"}

\* the log holds a settle delay
Settled(lg) == \E i \in 1..Len(lg) : lg[i].k = "delay"

C12_NoTransportFailsFast ==
    (ReportsBool /\ Active = {}) => (ret = "false" /\ ~Settled(log))

----------------------------------------------------------------------------
(* C13: with the byte stream bound, every call of beginTransmission,       *)
(* transmit and endTransmission returns true, and every operation that     *)
(* reports success as a bool returns true.  On the byte stream             *)
(* beginTransmission and endTransmission take no branch and flow off their *)
(* end without a return statement.                                         *)

C13_SerialAlwaysSucceeds ==
    (ReportsBool /\ Active = {"serial"}) => (AllOk(log) /\ ret = "true")

----------------------------------------------------------------------------
(* C14: setBacklight(r,g,b) and setBacklight(rgb), when no primitive call   *)
(* fails, are one open, then 254, 0x08 | mask with the display-on bit      *)
(* cleared, 0x7C, red, 0x7C, green, 0x7C, blue, 254, 0x08 | mask with the  *)
(* display-on bit set, then one close and one delay of 50.                 *)

SlowBacklight == {"setBacklight", "setBacklightRGB"}

\* the r, g, b of a backlight call
Channels(o) ==
    IF Len(o.args) = 3 THEN o.args
    ELSE <<(o.args[1] \div 65536) % 256, (o.args[1] \div 256) % 256, o.args[1] % 256>>

\* the byte of a channel: the base of its range plus x * 29 / 255
Scaled(base, x) == base + ((x * 29) \div 255)

C14_SlowBacklightFrame ==
    (Returned(SlowBacklight) /\ AllOk(log)) =>
        LET c == Channels(op) IN
        Frame(log) = FrameOf(<<254, 8 + WithBit(pre.dc, 4, FALSE),
                               124, Scaled(128, c[1]),
                               124, Scaled(158, c[2]),
                               124, Scaled(188, c[3]),
                               254, 8 + WithBit(pre.dc, 4, TRUE)>>, 50)

\* setBacklight(128, 1, 254) from the mask 6 (display and cursor on) has sent
\* 0x0A first and 0x0E last
C14_Witness ==
    /\ Returned({"setBacklight"})
    /\ op.args = <<128, 1, 254>>
    /\ pre.dc = 6
    /\ ret = "true"
    /\ SentBytes(log) = <<254, 10, 124, 142, 124, 158, 124, 216, 254, 14>>
    /\ log[Len(log)] = Ev("delay", 50, TRUE)

----------------------------------------------------------------------------
(* C15: when setBacklight has returned true, _displayControl is what it    *)
(* was before the call and the last display-control byte sent is 0x08 |    *)
(* that mask, also when the display had been turned off by noDisplay().    *)
(* The code sets LCD_DISPLAYON after the colours whatever the bit was.     *)

C15_MaskAsBefore ==
    (Returned(SlowBacklight) /\ ret = "true") =>
        /\ displayControl = pre.dc
        /\ SentBytes(log)[10] = 8 + pre.dc

----------------------------------------------------------------------------
(* C16: setFastBacklight(r,g,b) and setFastBacklight(rgb) leave             *)
(* _displayControl and _displayMode as they were, whether they return true *)
(* or false, and settle only when they return true; when no primitive call *)
(* fails they are one open, 0x7C, 0x2B, r, g, b as given, one close and a  *)
(* delay of 10, and the bytes sent are not those the slow form sends for   *)
(* the same colour.                                                        *)

FastBacklight == {"setFastBacklight", "setFastBacklightRGB"}

\* the bytes setBacklight(r, g, b) sends from the mask dc when nothing fails
SlowBytes(dc, c) ==
    SentBytes(setBacklight([i2c |-> TRUE, serial |-> FALSE, spi |-> FALSE,
                            tx |-> FALSE, addr |-> DISPLAY_ADDRESS1,
                            build |-> "plain"],
                           {}, dc, c[1], c[2], c[3]).log)

C16_FastBacklightRaw ==
    Returned(FastBacklight) =>
        LET c == Channels(op) IN
        /\ displayControl = pre.dc
        /\ displayMode = pre.dm
        /\ Settled(log) <=> ret = "true"
        /\ AllOk(log) =>
              /\ Frame(log) = FrameOf(<<124, 43, c[1], c[2], c[3]>>, 10)
              /\ ret = "true"
              /\ SentBytes(log) # SlowBytes(pre.dc, c)

\* setFastBacklight(128, 1, 254) has sent the three bytes as given while the
\* display and the cursor are on, and has settled 10
C16_Witness ==
    /\ Returned({"setFastBacklight"})
    /\ op.args = <<128, 1, 254>>
    /\ ret = "true"
    /\ SentBytes(log) = <<124, 43, 128, 1, 254>>
    /\ log[Len(log)] = Ev("delay", 10, TRUE)
    /\ displayControl = 6

----------------------------------------------------------------------------
(* C17: when a toggle has returned, true or false, its mask holds the bit  *)
(* as the toggle sets it: a failed transmission does not put the old mask  *)
(* back, and every byte the toggle did send after 254 carries the new      *)
(* mask.  When setAddress has returned false, _i2cAddr is what it was.     *)

C17_NoRollback ==
    /\ Returned(ControlToggles \cup ModeToggles) =>
          /\ MaskNow = WithBit(MaskBefore, ToggleBit(op.name), ToggleOn(op.name))
          /\ Len(Sent(log)) >= 2 =>
                (SentBytes(log)[2] \div ToggleBit(op.name)) % 2
                    = (IF ToggleOn(op.name) THEN 1 ELSE 0)
    /\ (Returned({"setAddress"}) /\ ret = "false") => i2cAddr = pre.addr

\* noDisplay() has failed at its first transmit and the display-on bit of
\* the mask is cleared all the same
C17_Witness ==
    /\ Returned({"noDisplay"})
    /\ ret = "false"
    /\ pre.dc = 6
    /\ displayControl = 2
    /\ Len(log) = 2
    /\ ~log[2].ok

----------------------------------------------------------------------------
(* C18: an operation that has been called returns, whatever each primitive *)
(* call returns: specialCommand(command, count) for the counts up to 255,  *)
(* createChar, write(buffer, size) and write(uint8_t), step by step, on    *)
(* every transport.  The loops end; write(uint8_t) has no return statement *)
(* and, where the compiler emitted no return instruction for it, the call  *)
(* runs off the end of the function and never returns.                     *)

C18_OperationsReturn == (pc \in {"open", "loop", "close"}) ~> (pc = "returned")

----------------------------------------------------------------------------
(* C19: command(c) is one open, 0x7C, c, one close and a delay of 10, and  *)
(* specialCommand(c) one open, 254, c, one close and a delay of 50, when   *)
(* no primitive call fails; when one fails the operation stops there.  The *)
(* delay is performed only after a close that succeeded, and the operation *)
(* returns true exactly when it has performed it.                          *)

\* s is the beginning of t
IsPrefix(s, t) == Len(s) <= Len(t) /\ SubSeq(t, 1, Len(s)) = s

\* the frame of command(c) or specialCommand(c) when nothing fails
SingleFrame(o) ==
    IF o.name = "command" THEN FrameOf(<<124, o.args[1]>>, 10)
    ELSE FrameOf(<<254, o.args[1]>>, 50)

\* every delay of the log comes after a close that returned true
SettledAfterClose(lg) ==
    \A i \in 1..Len(lg) :
        lg[i].k = "delay" => \E j \in 1..(i - 1) : lg[j].k = "close" /\ lg[j].ok

C19_SingleCommandFrame ==
    Returned({"command", "specialCommand"}) =>
        /\ IsPrefix(Frame(log), SingleFrame(op))
        /\ AllOk(log) => Frame(log) = SingleFrame(op)
        /\ SettledAfterClose(log)
        /\ ret = "true" <=> Settled(log)
        /\ ret = "true" <=> Frame(log) = SingleFrame(op)

\* command(72) has failed at its close: both bytes were sent, there is no
\* delay and it has returned false
C19_Witness ==
    /\ Returned({"command"})
    /\ op.args = <<72>>
    /\ i2cPort
    /\ Len(log) = 4
    /\ log[4] = Ev("close", 0, FALSE)
    /\ ret = "false"

----------------------------------------------------------------------------
(* C20: clear() is the setting command 0x2D; when it succeeds a second     *)
(* delay of 10 follows the command's own, 20 in all after the close; when  *)
(* it fails there is no delay and it returns false.                        *)

\* the sum of the settle delays of a log
RECURSIVE SettleTime(_)
SettleTime(lg) ==
    IF lg = <<>> THEN 0
    ELSE (IF Head(lg).k = "delay" THEN Head(lg).v ELSE 0) + SettleTime(Tail(lg))

C20_ClearSettlesTwice ==
    Returned({"clear"}) =>
        /\ IsPrefix(Frame(log), FrameOf(<<124, 45>>, 10) \o <<(<<"delay", 10>>)>>)
        /\ AllOk(log) => ret = "true"
        /\ ret = "true" =>
              /\ Frame(log) = FrameOf(<<124, 45>>, 10) \o <<(<<"delay", 10>>)>>
              /\ SettleTime(log) = 20
              /\ SettledAfterClose(log)
        /\ ret = "false" => SettleTime(log) = 0 /\ ~Settled(log)

\* clear() has succeeded on I2C: two delays of 10 after the close
C20_Witness ==
    /\ Returned({"clear"})
    /\ i2cPort
    /\ ret = "true"
    /\ Len(log) = 6
    /\ log[4] = Ev("close", 0, TRUE)
    /\ log[5] = Ev("delay", 10, TRUE)
    /\ log[6] = Ev("delay", 10, TRUE)

----------------------------------------------------------------------------
(* C21: a begin sets the port it is given and runs init() once: one open   *)
(* on that transport, then 254, 0x08 | displayControl, 254,                *)
(* 0x04 | displayMode, 0x7C, 0x2D, one close and a delay of 50 when        *)
(* nothing fails, a beginning of that when a primitive call fails, and the *)
(* delay only when the whole frame went through; begin(I2C&) returns true  *)
(* exactly then.  The display control goes out before the entry mode.      *)

\* the frame of init() when nothing fails
InitFrame == FrameOf(<<254, 8 + displayControl, 254, 4 + displayMode, 124, 45>>, 50)

\* the same with the entry mode first
InitFrameEntryModeFirst ==
    FrameOf(<<254, 4 + displayMode, 254, 8 + displayControl, 124, 45>>, 50)

\* the calls of beginTransmission of a log
Opens(lg) == SelectSeq(lg, LAMBDA e : e.k = "open")

\* what the claim says of a begin whose frame, when nothing fails, is frame
InitRuns(frame) ==
    Returned(BeginOps) =>
        /\ Active = {Given(op.name)}
        /\ Len(Opens(log)) = 1
        /\ i2cPort => Opens(log)[1].v = i2cAddr
        /\ IsPrefix(Frame(log), frame)
        /\ AllOk(log) => Frame(log) = frame
        /\ Settled(log) <=> Frame(log) = frame
        /\ op.name = "beginI2C" => (ret = "true" <=> Frame(log) = frame)

\* as first stated: entry mode, display control, clear
C21_EntryModeFirst == InitRuns(InitFrameEntryModeFirst)

C21_InitSequence == InitRuns(InitFrame)

\* begin(I2C&) has returned true after blink() and rightToLeft(): the bytes
\* are 0x0D for the display control, then 0x04 for the entry mode
C21_Witness ==
    /\ Returned({"beginI2C"})
    /\ ret = "true"
    /\ displayControl = 5
    /\ displayMode = 0
    /\ SentBytes(log) = <<254, 13, 254, 4, 124, 45>>
    /\ log[Len(log)] = Ev("delay", 50, TRUE)

----------------------------------------------------------------------------
(* C22: an operation that starts with no frame open and in which no        *)
(* primitive call fails calls beginTransmission and endTransmission in     *)
(* turn, beginTransmission first, calls transmit only between the two,     *)
(* performs its settle delays only after endTransmission, and leaves no    *)
(* frame open.  As no frame is open after construction, this is so for     *)
(* every operation of a run in which no primitive call fails.  The settle  *)
(* delays are the delay() calls of the operations; the wait of 10 that     *)
(* beginTransmission makes on SPI after selecting the display is part of   *)
(* opening the frame.                                                      *)

\* the calls of lg keep to open, sends, close, with the delays outside, when
\* open tells whether a frame is open before them
RECURSIVE WellFramed(_, _)
WellFramed(open, lg) ==
    IF lg = <<>> THEN TRUE
    ELSE LET e == Head(lg) IN
         /\ e.k = "open" => ~open
         /\ e.k \in {"send", "close"} => open
         /\ e.k = "delay" => ~open
         /\ WellFramed(FrameAfter(open, <<e>>), Tail(lg))

C22_FramesAlternate ==
    (pc = "returned" /\ ~pre.frame /\ AllOk(log)) =>
        /\ WellFramed(FALSE, log)
        /\ ~frameOpen

\* setBacklight(r,g,b) has run on SPI with transactions after begin: its ten
\* bytes are inside one frame and its delay after it
C22_Witness ==
    /\ Returned({"setBacklight"})
    /\ spiPort /\ spiTransaction
    /\ ~pre.frame
    /\ Len(Sent(log)) = 10
    /\ log[Len(log)] = Ev("delay", 50, TRUE)
    /\ ~frameOpen

----------------------------------------------------------------------------
(* C23: in a begin (init) and in every operation that returns bool, when a *)
(* transmit fails after beginTransmission succeeded, endTransmission is    *)
(* not called, there is no settle delay, the operation does not return     *)
(* true, and the frame is open at the return; the first primitive call of  *)
(* an operation that starts with the frame open is beginTransmission       *)
(* (write(NULL) makes no call).                                            *)

\* a transmit of the log returned false after a beginTransmission that
\* returned true
SendFailedInFrame(lg) ==
    \E i \in 1..Len(lg) :
        /\ lg[i].k = "send" /\ ~lg[i].ok
        /\ \E j \in 1..(i - 1) : lg[j].k = "open" /\ lg[j].ok

C23_FailedSendLeavesFrameOpen ==
    /\ ((ReportsBool \/ Returned(BeginOps)) /\ SendFailedInFrame(log)) =>
          /\ ret # "true"
          /\ \A i \in 1..Len(log) : log[i].k \notin {"close", "delay"}
          /\ ~log[Len(log)].ok
          /\ frameOpen
    /\ (pc = "returned" /\ pre.frame /\ log # <<>>) => Frame(log)[1][1] = "open"

\* createChar has failed at a byte of its charmap in a frame that was opened
\* while the frame of the operation before it was still open
C23_Witness ==
    /\ Returned({"createChar"})
    /\ i2cPort
    /\ pre.frame
    /\ log[1] = Ev("open", i2cAddr, TRUE)
    /\ Len(log) = 5
    /\ ~log[5].ok
    /\ ret = "false"
    /\ frameOpen

----------------------------------------------------------------------------
(* C24: when setBacklight has opened its frame and one of its first eight  *)
(* transmits fails, _displayControl is left with LCD_DISPLAYON cleared and *)
(* its other bits as they were; when beginTransmission itself fails the    *)
(* mask is as it was.  While the bit is clear, cursor(), noCursor(),       *)
(* blink() and noBlink() leave it clear and send a byte without it.  The   *)
(* bit is set again only by display() or by a setBacklight that gets past  *)
(* its first eight transmits, whether that call then returns true or not.  *)

CursorBlinkToggles == {"noCursor", "cursor", "noBlink", "blink"}

\* the display-on bit of a mask or of a display-control byte
DisplayOn(m) == (m \div 4) % 2 = 1

\* what a slow backlight call and the toggles after it do to the bit
BacklightFailureClearsDisplay ==
    /\ (Returned(SlowBacklight) /\ ~log[1].ok /\ log[1].k = "open") =>
          displayControl = pre.dc
    /\ (Returned(SlowBacklight) /\ SendFailedInFrame(log) /\ Len(Sent(log)) <= 8) =>
          /\ displayControl = WithBit(pre.dc, 4, FALSE)
          /\ ret = "false"
    /\ (Returned(CursorBlinkToggles) /\ ~DisplayOn(pre.dc)) =>
          /\ ~DisplayOn(displayControl)
          /\ Len(Sent(log)) >= 2 => ~DisplayOn(SentBytes(log)[2])

\* as first stated: the bit stays clear until display() or a setBacklight
\* that returns true
C24_ClearUntilDisplayOrSuccess ==
    /\ BacklightFailureClearsDisplay
    /\ (pc = "returned" /\ ~DisplayOn(pre.dc) /\ DisplayOn(displayControl)) =>
          \/ op.name = "display"
          \/ op.name \in SlowBacklight /\ ret = "true"

C24_ClearUntilDisplayOrNinthByte ==
    /\ BacklightFailureClearsDisplay
    /\ (pc = "returned" /\ ~DisplayOn(pre.dc) /\ DisplayOn(displayControl)) =>
          \/ op.name = "display"
          \/ op.name \in SlowBacklight /\ Len(Sent(log)) >= 9

\* setBacklight(r,g,b), called with the display and the cursor on, has
\* failed at its fourth byte and left the mask 2
C24_Witness ==
    /\ Returned({"setBacklight"})
    /\ pre.dc = 6
    /\ log[1].ok
    /\ Len(Sent(log)) = 4
    /\ ~log[5].ok
    /\ ret = "false"
    /\ displayControl = 2

----------------------------------------------------------------------------
(* C25: a begin writes neither _displayControl nor _displayMode, and only  *)
(* begin(I2C&, addr) writes _i2cAddr: the display-control and entry-mode   *)
(* bytes of its init() carry the masks as the toggles before it left them, *)
(* and begin(I2C&) opens its frame on the address that an earlier          *)
(* begin(I2C&, addr) or setAddress left.                                   *)

C25_BeginKeepsState ==
    Returned(BeginOps) =>
        /\ displayControl = pre.dc
        /\ displayMode = pre.dm
        /\ i2cAddr = (IF op.name = "beginI2CAddr" THEN op.args[1] ELSE pre.addr)
        /\ Len(Sent(log)) >= 2 => SentBytes(log)[2] = 8 + pre.dc
        /\ Len(Sent(log)) >= 4 => SentBytes(log)[4] = 4 + pre.dm
        /\ op.name = "beginI2C" => Opens(log)[1].v = pre.addr

\* begin(I2C&) on a session whose address is 0x71, with display, cursor and
\* blink on and autoscroll right to left: none of it is the constructor's
C25_Witness ==
    /\ Returned({"beginI2C"})
    /\ pre.addr = 113
    /\ pre.dc = 7
    /\ pre.dm = 1
    /\ log[1] = Ev("open", 113, TRUE)
    /\ SentBytes(log) = <<254, 15, 254, 5, 124, 45>>
    /\ i2cAddr = 113

====
